---- MODULE Spec2Model ----
(***************************************************************************)
(* A model of VAE/input_data.py: the MNIST fetcher (maybe_download), the   *)
(* IDX decoder (_read32, extract_image, extract_labels, dense_to_one_hot), *)
(* the DataSet container (__init__, next_batch) and the assembler          *)
(* (read_data_sets).                                                       *)
(*                                                                         *)
(* Arrays are sequences of rows.  A decoded image row is a record          *)
(* [src, px]: src is the position of the example in the archive it was     *)
(* decoded from (its provenance, which the program does not store but      *)
(* which every slice and fancy-index carries along), px the row's bytes in *)
(* row-major order.  A label row is [src, val].                            *)
(***************************************************************************)
EXTENDS Integers, Sequences, FiniteSets, TLC

(***************************************************************************)
(* Bounds of the model.                                                    *)
(***************************************************************************)
MaxN == 3
MaxNFixed == 10
MaxFullShuffle == 3
MaxEpochs == 2
MaxCalls == 4
MaxCallsFixed == 12
MaxFetchCalls == 4
MaxImages == 2
MaxSide == 2
MaxRot == 1
MaxExtra == 1

VARIABLES
    \* ---- DataSet (one container and its caller) ----
    pc,               \* "new": before DataSet(...); "ready"; "failed": the constructor raised
    in_images,        \* constructor argument images (rows [src, px])
    in_labels,        \* constructor argument labels (rows [src, val])
    in_channels,      \* images.shape[3]
    images,           \* self._images
    labels,           \* self._labels
    num_examples,     \* self._num_examples
    epochs_completed, \* self._epochs_completed
    index_in_epoch,   \* self._index_in_epoch
    ret,              \* what the last call returned or raised
    calls,            \* number of next_batch calls made on the container
    plan,             \* the caller's batch size: -1 = any size at each call
    served,           \* the <<start, end>> ranges returned since the last shuffle
    finished,         \* number of batches the previous epoch served (-1: none finished)
    \* ---- the fetcher: the server, the local file system, the network ----
    remote,           \* what SOURCE_URL + filename serves, per filename
    fs_dirs,          \* the directories that exist
    fs_files,         \* per <<directory, filename>>: [kind, data]
    requests,         \* per filename: the retrievals dispatched so far
    dl_ret,           \* what the last maybe_download returned or raised
    dl_calls,         \* number of maybe_download calls made
    returned,         \* the paths some maybe_download call has returned
    \* ---- the decoder ----
    dec_file,         \* the file handed to the decoder: [name, data]
    dec_ret,          \* what the last extract_image / extract_labels returned or raised
    \* ---- read_data_sets ----
    rds               \* its position (pc, a source line), arguments, locals and result

dsVars == <<pc, in_images, in_labels, in_channels, images, labels, num_examples,
            epochs_completed, index_in_epoch, ret, calls, plan, served, finished>>

fetchVars == <<remote, fs_dirs, fs_files, requests, dl_ret, dl_calls, returned>>

decVars == <<dec_file, dec_ret>>

vars == <<dsVars, fetchVars, decVars, rds>>

(***************************************************************************)
(* Helpers over arrays.                                                    *)
(***************************************************************************)
Range(s) == {s[i] : i \in 1..Len(s)}

Min(a, b) == IF a <= b THEN a ELSE b

\* Python's a[start:end] for 0 <= start, 0 <= end: positions are clipped to len(a).
Slice(a, start, end) ==
    LET e == Min(end, Len(a))
        s == Min(start, Len(a))
    IN  IF s >= e THEN <<>> ELSE SubSeq(a, s + 1, e)

\* numpy's a[index] for an index array: row i of the result is a[index[i]]
\* (index holds 0-based positions).
Take(a, index) == [i \in 1..Len(index) |-> a[index[i] + 1]]

\* np.arange(n)
Arange(n) == [i \in 1..n |-> i - 1]

\* The orders np.random.shuffle can leave np.arange(n) in.  Up to MaxFullShuffle
\* rows every permutation is drawn; above it the random source is bounded to
\* the rotations by 0..MaxRot places and their reversals.
Shuffled(n) ==
    IF n <= MaxFullShuffle
    THEN {p \in [1..n -> 0..(n - 1)] : \A i, j \in 1..n : p[i] = p[j] => i = j}
    ELSE {[i \in 1..n |-> (i - 1 + k) % n] : k \in 0..Min(MaxRot, n - 1)}
         \cup {[i \in 1..n |-> (k + n - i) % n] : k \in 0..Min(MaxRot, n - 1)}

(***************************************************************************)
(* Results of calls.                                                       *)
(***************************************************************************)
NoMsg == [text |-> "", nums |-> <<>>, strs |-> <<>>]

NoRet == [op |-> "none", status |-> "none", batch_size |-> 0, start |-> 0,
          end |-> 0, images |-> <<>>, labels |-> <<>>, msg |-> NoMsg]

\* Synthetic constructor arguments: n images of one pixel, m labels.
MkImages(n) == [i \in 1..n |-> [src |-> i, px |-> <<(i * 85) % 256>>]]
MkLabels(m) == [i \in 1..m |-> [src |-> i, val |-> i % 10]]

(***************************************************************************)
(* DataSet.__init__                                                        *)
(***************************************************************************)
\* images.astype(np.float32) * (1/255): a pixel v becomes the fraction v/255,
\* kept as the pair <<numerator, denominator>>.
Normalize(row) == [src |-> row.src, px |-> [k \in 1..Len(row.px) |-> <<row.px[k], 255>>]]

NoObj == [images |-> <<>>, labels |-> <<>>, num_examples |-> 0,
          epochs_completed |-> 0, index_in_epoch |-> 0]

\* The outcomes of DataSet(images, labels) for images of shape
\* (Len(imgs), rows, cols, channels): [status, msg, obj].
NewDataSet(imgs, lbls, channels) ==
    IF Len(imgs) /= Len(lbls)
    THEN \* assert images.shape[0] == labels.shape[0]
         {[status |-> "AssertionError",
           msg |-> [text |-> "images.shape:%s, labels.shape:%s ",
                    nums |-> <<Len(imgs), Len(lbls)>>, strs |-> <<>>],
           obj |-> NoObj]}
    ELSE IF channels /= 1
    THEN \* assert images.shape[3] == 1 (self._num_examples is already set)
         {[status |-> "AssertionError", msg |-> NoMsg,
           obj |-> [NoObj EXCEPT !.num_examples = Len(imgs)]]}
    ELSE {[status |-> "ok", msg |-> NoMsg,
           obj |-> [images |-> Take([i \in 1..Len(imgs) |-> Normalize(imgs[i])],
                                    shuffle_index),
                    labels |-> Take(lbls, shuffle_index),
                    num_examples |-> Len(imgs),
                    epochs_completed |-> 0,
                    index_in_epoch |-> 0]]
          : shuffle_index \in Shuffled(Len(imgs))}

DataSetInit ==
    /\ pc = "new"
    /\ \E o \in NewDataSet(in_images, in_labels, in_channels) :
          /\ pc' = IF o.status = "ok" THEN "ready" ELSE "failed"
          /\ images' = o.obj.images
          /\ labels' = o.obj.labels
          /\ num_examples' = o.obj.num_examples
          /\ epochs_completed' = o.obj.epochs_completed
          /\ index_in_epoch' = o.obj.index_in_epoch
          /\ ret' = [NoRet EXCEPT !.op = "DataSet", !.status = o.status, !.msg = o.msg]
    /\ UNCHANGED <<in_images, in_labels, in_channels, calls, plan, served, finished>>
    /\ UNCHANGED <<fetchVars, decVars, rds>>

(***************************************************************************)
(* DataSet.next_batch                                                      *)
(***************************************************************************)
\* if self._index_in_epoch > self._num_examples (after the += batch_size)
RolloverGe(advanced, n) == advanced >= n
RolloverLate(advanced, n) == advanced > n + 1
Rollover(advanced, n) == advanced > n

\* assert batch_size <= self._num_examples
BatchSizeOkStrict(batch_size, n) == batch_size < n
BatchSizeOk(batch_size, n) == batch_size <= n

\* The index array applied to self._labels at a rollover: the same
\* shuffle_index that was applied to self._images.
LabelIndexUnshuffled(shuffle_index) == Arange(Len(shuffle_index))
LabelIndex(shuffle_index) == shuffle_index

\* start = 0 at a rollover
StartKept(start) == start
StartAfterRollover(start) == 0

\* self._index_in_epoch = batch_size at a rollover
CursorResetZero(batch_size) == 0
CursorAfterRollover(batch_size) == batch_size

\* self._images[start:end], self._labels[start:end]
ReturnedBatchFromZero(a, start, end) == Slice(a, 0, end - start)
ReturnedBatch(a, start, end) == Slice(a, start, end)

\* The number of calls the model lets the caller make.
CallCap == IF plan = -1 THEN MaxCalls ELSE MaxCallsFixed

next_batch(batch_size) ==
    /\ pc = "ready"
    /\ calls < CallCap
    /\ epochs_completed < MaxEpochs
    /\ calls' = calls + 1
    /\ IF ~BatchSizeOk(batch_size, num_examples)
       THEN /\ ret' = [NoRet EXCEPT !.op = "next_batch", !.status = "AssertionError",
                          !.batch_size = batch_size,
                          !.msg = [text |-> "batch_size(%s) bigger than data size(%s)",
                                   nums |-> <<batch_size, num_examples>>,
                                   strs |-> <<>>]]
            /\ UNCHANGED <<images, labels, epochs_completed, index_in_epoch,
                           served, finished>>
       ELSE LET start == index_in_epoch
                advanced == index_in_epoch + batch_size
            IN  IF Rollover(advanced, num_examples)
                THEN \E shuffle_index \in Shuffled(num_examples) :
                     LET start0 == StartAfterRollover(start)
                         end == CursorAfterRollover(batch_size)
                     IN
                     /\ epochs_completed' = epochs_completed + 1
                     /\ images' = Take(images, shuffle_index)
                     /\ labels' = Take(labels, LabelIndex(shuffle_index))
                     /\ index_in_epoch' = end
                     /\ ret' = [NoRet EXCEPT !.op = "next_batch", !.status = "ok",
                                   !.batch_size = batch_size,
                                   !.start = start0, !.end = end,
                                   !.images = ReturnedBatch(images', start0, end),
                                   !.labels = ReturnedBatch(labels', start0, end)]
                     /\ served' = << <<start0, end>> >>
                     /\ finished' = Len(served)
                ELSE /\ index_in_epoch' = advanced
                     /\ ret' = [NoRet EXCEPT !.op = "next_batch", !.status = "ok",
                                   !.batch_size = batch_size,
                                   !.start = start, !.end = advanced,
                                   !.images = ReturnedBatch(images, start, advanced),
                                   !.labels = ReturnedBatch(labels, start, advanced)]
                     /\ served' = Append(served, <<start, advanced>>)
                     /\ UNCHANGED <<images, labels, epochs_completed, finished>>
    /\ UNCHANGED <<pc, in_images, in_labels, in_channels, num_examples, plan>>
    /\ UNCHANGED <<fetchVars, decVars, rds>>

\* The caller: any batch size at each call, or the fixed size of its plan.
NextBatch ==
    \E batch_size \in 0..(num_examples + 1) :
        /\ plan = -1 \/ plan = batch_size
        /\ next_batch(batch_size)



(***************************************************************************)
(* The names of the module and of read_data_sets.                          *)
(***************************************************************************)
SOURCE_URL == "http://yann.lecun.com/exdb/mnist/"
TRAIN_IMAGES == "train-images-idx3-ubyte.gz"
TRAIN_LABELS == "train-labels-idx1-ubyte.gz"
TEST_IMAGES == "t10k-images-idx3-ubyte.gz"
TEST_LABELS == "t10k-labels-idx1-ubyte.gz"

FileNames == {TRAIN_IMAGES, TRAIN_LABELS, TEST_IMAGES, TEST_LABELS}

(***************************************************************************)
(* The IDX byte layout: big-endian 4-byte header fields, then the payload. *)
(* A file's data is the byte stream gzip.open yields for it.               *)
(***************************************************************************)
Be32(v) == <<(v \div 16777216) % 256, (v \div 65536) % 256, (v \div 256) % 256, v % 256>>

\* An image archive of n images of rows x cols pixels.
ImageArchive(magic, n, rows, cols) ==
    magic \o Be32(n) \o Be32(rows) \o Be32(cols)
          \o [k \in 1..(n * rows * cols) |-> (k * 85) % 256]

\* A label archive of n labels.
LabelArchive(magic, n) == magic \o Be32(n) \o [k \in 1..n |-> k % 10]


(***************************************************************************)
(* The decoder: _read32, extract_image, dense_to_one_hot, extract_labels   *)
(***************************************************************************)
\* _read32 at byte offset pos of the stream: a big-endian unsigned 32-bit value.
Read32(data, pos) ==
    data[pos + 1] * 16777216 + data[pos + 2] * 65536 + data[pos + 3] * 256 + data[pos + 4]

NoDec == [op |-> "none", status |-> "none", filename |-> "", msg |-> NoMsg,
          shape |-> <<>>, data |-> <<>>]

\* if magic != 2051: raise
ImageMagicOkAsLabels(magic) == magic = 2049
ImageMagicOk(magic) == magic = 2051

\* if magic != 2049: raise
LabelMagicOk(magic) == magic = 2049

\* What reading a header of `fields` 4-byte values raises when the stream
\* ends inside it: np.frombuffer refuses 1 to 3 bytes (ValueError), and yields
\* an empty array for none, whose [0] raises IndexError.
ShortHeader(data, fields) ==
    IF Len(data) >= 4 * fields THEN "no"
    ELSE IF Len(data) % 4 /= 0 THEN "ValueError"
    ELSE "IndexError"

\* extract_image(filename) on a file holding data (4 bytes at least).  The
\* byte count asked of the stream is a product of uint32 values; the headers
\* of the model keep it far below 2^32, where it would wrap.  reshape raises
\* when the bytes read are not num_images * rows * cols.
ExtractImage(filename, data) ==
    LET magic == Read32(data, 0)
        r0 == [NoDec EXCEPT !.op = "extract_image", !.filename = filename]
    IN  IF ~ImageMagicOk(magic)
        THEN [r0 EXCEPT !.status = "ValueError",
                        !.msg = [text |-> "Invalid magic number %d in MNIST image file:%s",
                                 nums |-> <<magic>>, strs |-> <<filename>>]]
        ELSE IF ShortHeader(data, 4) /= "no"
        THEN [r0 EXCEPT !.status = ShortHeader(data, 4)]
        ELSE LET num_images == Read32(data, 4)
                 rows == Read32(data, 8)
                 cols == Read32(data, 12)
                 asked == rows * cols * num_images
                 buf == Slice(data, 16, 16 + asked)
                 m == rows * cols
             IN  IF Len(buf) /= num_images * m
                 THEN [r0 EXCEPT !.status = "ValueError",
                                 !.msg = [text |-> "cannot reshape array of size %d into shape %s",
                                          nums |-> <<Len(buf), num_images, rows, cols, 1>>,
                                          strs |-> <<>>]]
                 ELSE [r0 EXCEPT !.status = "ok",
                                 !.shape = <<num_images, rows, cols, 1>>,
                                 !.data = [i \in 1..num_images |->
                                             [src |-> i,
                                              px |-> [k \in 1..m |-> buf[(i - 1) * m + k]]]]]

\* dense_to_one_hot: labels_one_hot.flat[offset_index + labels_dense.ravel()] = 1.
\* Row j writes the flat position (j-1) * num_classes + label j, which lies in
\* row i at column label j - (i-j) * num_classes; a label is a byte, so only
\* the rows j <= i within 255 / num_classes of i can reach row i.  A flat
\* position outside the matrix raises.
DenseToOneHot(labels_dense, num_classes) ==
    LET n == Len(labels_dense)
        reach == 255 \div num_classes
        written(i) == {labels_dense[j].val - (i - j) * num_classes :
                          j \in (IF i > reach THEN i - reach ELSE 1)..i}
    IN  IF \E j \in 1..n : (j - 1) * num_classes + labels_dense[j].val >= n * num_classes
        THEN [status |-> "IndexError", data |-> <<>>]
        ELSE [status |-> "ok",
              data |-> [i \in 1..n |->
                          LET w == written(i)
                          IN  [src |-> i,
                               val |-> [c \in 1..num_classes |->
                                          IF (c - 1) \in w THEN 1 ELSE 0]]]]

\* extract_labels(filename, one_hot) on a file holding data (4 bytes at least).
\* A short read of the labels is not noticed: the labels are the bytes that
\* were there.
ExtractLabels(filename, data, one_hot) ==
    LET magic == Read32(data, 0)
        r0 == [NoDec EXCEPT !.op = "extract_labels", !.filename = filename]
    IN  IF ~LabelMagicOk(magic)
        THEN [r0 EXCEPT !.status = "ValueError",
                        !.msg = [text |-> "Invalid magic number %d in MNIST label file:%s",
                                 nums |-> <<magic>>, strs |-> <<filename>>]]
        ELSE IF ShortHeader(data, 2) /= "no"
        THEN [r0 EXCEPT !.status = ShortHeader(data, 2)]
        ELSE LET num_items == Read32(data, 4)
                 buf == Slice(data, 8, 8 + num_items)
                 dense == [i \in 1..Len(buf) |-> [src |-> i, val |-> buf[i]]]
                 hot == DenseToOneHot(dense, 10)
             IN  IF ~one_hot
                 THEN [r0 EXCEPT !.status = "ok", !.shape = <<Len(buf)>>, !.data = dense]
                 ELSE IF hot.status /= "ok"
                 THEN [r0 EXCEPT !.status = hot.status]
                 ELSE [r0 EXCEPT !.status = "ok", !.shape = <<Len(buf), 10>>,
                                 !.data = hot.data]

\* The decoder is called as read_data_sets calls it: extract_image on the
\* image archives, extract_labels on the label archives.
extract_image ==
    /\ dec_ret.status = "none"
    /\ dec_file.name \in {TRAIN_IMAGES, TEST_IMAGES}
    /\ dec_ret' = ExtractImage(dec_file.name, dec_file.data)
    /\ UNCHANGED <<dec_file, dsVars, fetchVars, rds>>

extract_labels ==
    /\ dec_ret.status = "none"
    /\ dec_file.name \in {TRAIN_LABELS, TEST_LABELS}
    /\ \E one_hot \in BOOLEAN :
          dec_ret' = ExtractLabels(dec_file.name, dec_file.data, one_hot)
    /\ UNCHANGED <<dec_file, dsVars, fetchVars, rds>>

Decode == extract_image \/ extract_labels

(***************************************************************************)
(* maybe_download                                                          *)
(***************************************************************************)
Dirs == {"MNIST_data", "cache"}

Absent == [kind |-> "absent", data |-> <<>>]

NoDl == [status |-> "none", filename |-> "", dir |-> "", path |-> <<>>,
         url |-> <<>>, requested |-> FALSE]

\* os.path.join(work_directory, filename)
Join(work_directory, filename) == <<work_directory, filename>>

\* if not os.path.exists(filepath)
NeedsDownloadAlways(files, filepath) == TRUE
NeedsDownload(files, filepath) == files[filepath].kind = "absent"

\* What urllib.request.urlretrieve(url, filepath) can do: write the whole
\* file and return, raise before the file is opened, or raise after a part
\* of the content was written.
Retrievals(content) ==
    { [status |-> "ok", file |-> [kind |-> "downloaded", data |-> content]],
      [status |-> "URLError", file |-> Absent],
      [status |-> "ContentTooShortError",
       file |-> [kind |-> "partial", data |-> Slice(content, 0, Len(content) \div 2)]] }

\* The outcomes of maybe_download(filename, work_directory) from a state of
\* the file system and the network: [ret, dirs, files, requests].
MaybeDownload(filename, work_directory, dirs, files, reqs) ==
    LET filepath == Join(work_directory, filename)
        made == dirs \cup {work_directory}
        ret0 == [NoDl EXCEPT !.filename = filename, !.dir = work_directory]
        mkdir_fails ==
            IF work_directory \in dirs THEN {}
            ELSE {[ret |-> [ret0 EXCEPT !.status = "OSError"],
                   dirs |-> dirs, files |-> files, requests |-> reqs]}
    IN  mkdir_fails \cup
        IF NeedsDownload(files, filepath)
        THEN {[ret |-> [ret0 EXCEPT !.status = r.status,
                                    !.path = IF r.status = "ok" THEN filepath ELSE <<>>,
                                    !.url = <<SOURCE_URL, filename>>,
                                    !.requested = TRUE],
               dirs |-> made,
               files |-> [files EXCEPT ![filepath] = r.file],
               requests |-> [reqs EXCEPT ![filename] = @ + 1]]
              : r \in Retrievals(remote[filename])}
        ELSE {[ret |-> [ret0 EXCEPT !.status = "ok", !.path = filepath],
               dirs |-> made, files |-> files, requests |-> reqs]}

maybe_download(filename, work_directory) ==
    /\ dl_calls < MaxFetchCalls
    /\ \E o \in MaybeDownload(filename, work_directory, fs_dirs, fs_files, requests) :
          /\ dl_ret' = o.ret
          /\ fs_dirs' = o.dirs
          /\ fs_files' = o.files
          /\ requests' = o.requests
          /\ returned' = IF o.ret.status = "ok" THEN returned \cup {o.ret.path}
                         ELSE returned
    /\ dl_calls' = dl_calls + 1
    /\ UNCHANGED remote
    /\ UNCHANGED <<dsVars, decVars, rds>>

Fetch == \E filename \in {TRAIN_IMAGES, TRAIN_LABELS}, work_directory \in Dirs :
            maybe_download(filename, work_directory)

(***************************************************************************)
(* read_data_sets                                                          *)
(***************************************************************************)
VALIDATION_SIZE == 5000

\* images.shape[3] of what extract_image returns: reshape(..., 1)
DecodedChannels == 1

NoSets == [train |-> NoObj, test |-> NoObj, validation |-> NoObj]

NoRds == [pc |-> "idle", train_dir |-> "", one_hot |-> TRUE, error |-> "",
          local_file |-> <<>>,
          train_images |-> <<>>, train_labels |-> <<>>,
          test_images |-> <<>>, test_labels |-> <<>>,
          validation_images |-> <<>>, validation_labels |-> <<>>,
          data_sets |-> NoSets]

\* An exception leaves read_data_sets: its locals are gone, nothing is returned.
Raised(error) == [NoRds EXCEPT !.pc = "raised", !.train_dir = rds.train_dir,
                               !.one_hot = rds.one_hot, !.error = error]

\* train_images[:VALIDATION_SIZE], train_labels[:VALIDATION_SIZE]
ValidationPart(a) == Slice(a, 0, VALIDATION_SIZE)

\* train_images[VALIDATION_SIZE:], train_labels[VALIDATION_SIZE:]
TrainPartWhole(a) == a
TrainPart(a) == Slice(a, VALIDATION_SIZE, Len(a))

\* lines 146, 149, 152, 155: local_file = maybe_download(<name>, train_dir)
rds_download ==
    /\ rds.pc \in {"146", "149", "152", "155"}
    /\ LET filename == CASE rds.pc = "146" -> TRAIN_IMAGES
                         [] rds.pc = "149" -> TRAIN_LABELS
                         [] rds.pc = "152" -> TEST_IMAGES
                         [] rds.pc = "155" -> TEST_LABELS
           follows == CASE rds.pc = "146" -> "147"
                        [] rds.pc = "149" -> "150"
                        [] rds.pc = "152" -> "153"
                        [] rds.pc = "155" -> "156"
       IN  \E o \in MaybeDownload(filename, rds.train_dir, fs_dirs, fs_files, requests) :
              /\ dl_ret' = o.ret
              /\ fs_dirs' = o.dirs
              /\ fs_files' = o.files
              /\ requests' = o.requests
              /\ returned' = IF o.ret.status = "ok" THEN returned \cup {o.ret.path}
                             ELSE returned
              /\ rds' = IF o.ret.status = "ok"
                        THEN [rds EXCEPT !.pc = follows, !.local_file = o.ret.path]
                        ELSE Raised(o.ret.status)
    /\ dl_calls' = dl_calls + 1
    /\ UNCHANGED <<remote, dsVars, decVars>>

\* lines 147, 153: extract_image(local_file);
\* lines 150, 156: extract_labels(local_file, one_hot=one_hot)
rds_extract ==
    /\ rds.pc \in {"147", "150", "153", "156"}
    /\ LET data == fs_files[rds.local_file].data
           r == IF rds.pc \in {"147", "153"}
                THEN ExtractImage(rds.local_file, data)
                ELSE ExtractLabels(rds.local_file, data, rds.one_hot)
       IN  rds' = IF r.status /= "ok" THEN Raised(r.status)
                  ELSE CASE rds.pc = "147" -> [rds EXCEPT !.pc = "149", !.train_images = r.data]
                         [] rds.pc = "150" -> [rds EXCEPT !.pc = "152", !.train_labels = r.data]
                         [] rds.pc = "153" -> [rds EXCEPT !.pc = "155", !.test_images = r.data]
                         [] rds.pc = "156" -> [rds EXCEPT !.pc = "158", !.test_labels = r.data]
    /\ UNCHANGED <<dsVars, fetchVars, decVars>>

\* lines 158 to 162: the validation slice, then the training remainder
rds_split ==
    /\ rds.pc = "158"
    /\ rds' = [rds EXCEPT !.pc = "165",
                          !.validation_images = ValidationPart(rds.train_images),
                          !.validation_labels = ValidationPart(rds.train_labels),
                          !.train_images = TrainPart(rds.train_images),
                          !.train_labels = TrainPart(rds.train_labels)]
    /\ UNCHANGED <<dsVars, fetchVars, decVars>>

\* lines 165 to 167: the three containers; line 170 returns them
rds_construct ==
    /\ rds.pc \in {"165", "166", "167"}
    /\ LET imgs == CASE rds.pc = "165" -> rds.train_images
                     [] rds.pc = "166" -> rds.test_images
                     [] rds.pc = "167" -> rds.validation_images
           lbls == CASE rds.pc = "165" -> rds.train_labels
                     [] rds.pc = "166" -> rds.test_labels
                     [] rds.pc = "167" -> rds.validation_labels
       IN  \E o \in NewDataSet(imgs, lbls, DecodedChannels) :
              rds' = IF o.status /= "ok" THEN Raised(o.status)
                     ELSE CASE rds.pc = "165" ->
                                 [rds EXCEPT !.pc = "166", !.data_sets.train = o.obj]
                            [] rds.pc = "166" ->
                                 [rds EXCEPT !.pc = "167", !.data_sets.test = o.obj]
                            [] rds.pc = "167" ->
                                 [NoRds EXCEPT !.pc = "done",
                                               !.train_dir = rds.train_dir,
                                               !.one_hot = rds.one_hot,
                                               !.data_sets =
                                                   [rds.data_sets EXCEPT !.validation = o.obj]]
    /\ UNCHANGED <<dsVars, fetchVars, decVars>>

ReadDataSets == rds_download \/ rds_extract \/ rds_split \/ rds_construct

(***************************************************************************)
(* Initial states and specifications.                                      *)
(***************************************************************************)
MagicImages == Be32(2051)
MagicLabels == Be32(2049)

\* The canonical server: well-formed archives under the four names.
Server(n_train, n_test) ==
    [f \in FileNames |->
        CASE f = TRAIN_IMAGES -> ImageArchive(MagicImages, n_train, 1, 1)
          [] f = TRAIN_LABELS -> LabelArchive(MagicLabels, n_train)
          [] f = TEST_IMAGES -> ImageArchive(MagicImages, n_test, 1, 1)
          [] f = TEST_LABELS -> LabelArchive(MagicLabels, n_test)]

\* A file somebody put at the path beforehand: a header with a zero magic.
Dummy == [kind |-> "dummy", data |-> Be32(0) \o Be32(0) \o Be32(0) \o Be32(0)]

IdleFetch ==
    /\ remote = Server(0, 0)
    /\ fs_dirs = {}
    /\ fs_files = [p \in Dirs \X FileNames |-> Absent]
    /\ requests = [f \in FileNames |-> 0]
    /\ dl_ret = NoDl
    /\ dl_calls = 0
    /\ returned = {}

IdleDecode ==
    /\ dec_file = [name |-> "", data |-> <<>>]
    /\ dec_ret = NoDec

IdleDataSet ==
    /\ pc = "idle"
    /\ in_images = <<>>
    /\ in_labels = <<>>
    /\ in_channels = 1
    /\ images = <<>>
    /\ labels = <<>>
    /\ num_examples = 0
    /\ epochs_completed = 0
    /\ index_in_epoch = 0
    /\ ret = NoRet
    /\ calls = 0
    /\ plan = -1
    /\ served = <<>>
    /\ finished = -1

\* One container and a caller that picks a batch size at each call.
Init ==
    /\ pc = "new"
    /\ \E n \in 0..MaxN, skew \in 0..1 :
          /\ in_images = MkImages(n)
          /\ in_labels = MkLabels(n + skew)
    /\ in_channels \in {1, 3}
    /\ images = <<>>
    /\ labels = <<>>
    /\ num_examples = 0
    /\ epochs_completed = 0
    /\ index_in_epoch = 0
    /\ ret = NoRet
    /\ calls = 0
    /\ plan = -1
    /\ served = <<>>
    /\ finished = -1
    /\ IdleFetch
    /\ IdleDecode
    /\ rds = NoRds

Next == DataSetInit \/ NextBatch

Spec == Init /\ [][Next]_vars

\* One container and a training loop that asks for the same batch size at
\* every call.
InitFixed ==
    /\ pc = "new"
    /\ \E n \in 1..MaxNFixed :
          /\ in_images = MkImages(n)
          /\ in_labels = MkLabels(n)
          /\ plan \in 1..n
    /\ in_channels = 1
    /\ images = <<>>
    /\ labels = <<>>
    /\ num_examples = 0
    /\ epochs_completed = 0
    /\ index_in_epoch = 0
    /\ ret = NoRet
    /\ calls = 0
    /\ served = <<>>
    /\ finished = -1
    /\ IdleFetch
    /\ IdleDecode
    /\ rds = NoRds

SpecFixed == InitFixed /\ [][Next]_vars

\* The fetcher alone: some directories exist and some files were put there
\* beforehand.
InitFetch ==
    /\ IdleDataSet
    /\ IdleDecode
    /\ rds = NoRds
    /\ remote = Server(1, 1)
    /\ fs_dirs \in SUBSET Dirs
    /\ fs_files \in [Dirs \X FileNames -> {Absent, Dummy}]
    /\ \A p \in Dirs \X FileNames :
          (p[1] \notin fs_dirs \/ p[2] \notin {TRAIN_IMAGES, TRAIN_LABELS})
              => fs_files[p] = Absent
    /\ requests = [f \in FileNames |-> 0]
    /\ dl_ret = NoDl
    /\ dl_calls = 0
    /\ returned = {}

SpecFetch == InitFetch /\ [][Fetch]_vars

\* The magic numbers the decoder is tried on, as the four bytes of the file.
Magics == {Be32(2051), Be32(2049), Be32(2052), Be32(0), <<3, 8, 0, 0>>, <<0, 1, 8, 3>>}

\* The decoder alone, on an image or a label archive whose header is whole
\* and whose payload may be a byte short.
InitDecode ==
    /\ IdleDataSet
    /\ IdleFetch
    /\ rds = NoRds
    /\ dec_ret = NoDec
    /\ \E magic \in Magics, n \in 0..MaxImages, rows \in 1..MaxSide, cols \in 1..MaxSide,
          short \in 0..1 :
          \/ LET whole == ImageArchive(magic, n, rows, cols)
             IN  dec_file = [name |-> TRAIN_IMAGES,
                             data |-> Slice(whole, 0, Len(whole) - (IF n = 0 THEN 0 ELSE short))]
          \/ LET whole == LabelArchive(magic, n * rows * cols)
             IN  dec_file = [name |-> TRAIN_LABELS,
                             data |-> Slice(whole, 0, Len(whole) - (IF n = 0 THEN 0 ELSE short))]

SpecDecode == InitDecode /\ [][Decode]_vars

\* read_data_sets(train_dir, one_hot) against the canonical server, with a
\* training archive of about VALIDATION_SIZE examples and a test archive of 2.
\* The directory is missing, or holds the four archives already, or holds a
\* dummy file under the training images' name.
InitRead ==
    /\ IdleDataSet
    /\ IdleDecode
    /\ \E n_train \in (VALIDATION_SIZE - 1)..(VALIDATION_SIZE + MaxExtra),
          one_hot \in BOOLEAN,
          dir \in {"missing", "filled", "dummy"} :
          /\ remote = Server(n_train, 2)
          /\ rds = [NoRds EXCEPT !.pc = "146", !.train_dir = "MNIST_data",
                                 !.one_hot = one_hot]
          /\ fs_dirs = IF dir = "missing" THEN {} ELSE {"MNIST_data"}
          /\ fs_files =
                [p \in Dirs \X FileNames |->
                    IF p[1] /= "MNIST_data" THEN Absent
                    ELSE CASE dir = "filled" ->
                                 [kind |-> "downloaded", data |-> Server(n_train, 2)[p[2]]]
                           [] dir = "dummy" /\ p[2] = TRAIN_IMAGES -> Dummy
                           [] OTHER -> Absent]
    /\ requests = [f \in FileNames |-> 0]
    /\ dl_ret = NoDl
    /\ dl_calls = 0
    /\ returned = {}

SpecRead == InitRead /\ [][ReadDataSets]_vars

(***************************************************************************)
(* Claims about DataSet.                                                   *)
(***************************************************************************)
\* a2 and l2 are a and l rearranged by one and the same permutation.
SameShuffle(a, a2, l, l2) ==
    /\ Len(a2) = Len(a)
    /\ Len(l2) = Len(l)
    /\ Range(a2) = Range(a)
    /\ \A i \in 1..Len(a2) : \E j \in 1..Len(a) : a2[i] = a[j] /\ l2[i] = l[j]

\* The rows of a at the 0-based positions [from, to).
Rows(a, from, to) == [k \in 1..(to - from) |-> a[from + k]]

CeilDiv(n, b) == (n + b - 1) \div b

\* A step of the model that is a call of next_batch (its argument is ret'.batch_size).
IsCall == calls' = calls + 1

C1_Step ==
    LET b == ret'.batch_size
        n == num_examples
    IN  (IsCall /\ b <= n) =>
           /\ (index_in_epoch + b > n) =>
                 /\ ret'.status = "ok"
                 /\ epochs_completed' = epochs_completed + 1
                 /\ SameShuffle(images, images', labels, labels')
                 /\ ret'.images = Rows(images', 0, b)
                 /\ ret'.labels = Rows(labels', 0, b)
                 /\ index_in_epoch' = b
           /\ (index_in_epoch + b = n) =>
                 /\ epochs_completed' = epochs_completed
                 /\ images' = images
                 /\ labels' = labels
                 /\ index_in_epoch' = n

\* C1: a call next_batch(b), b <= N, made when cursor + b > N adds exactly 1 to
\* epochs_completed, rearranges images and labels by one permutation, returns
\* the rows [0, b) of the rearranged arrays and leaves the cursor at b; a call
\* made when cursor + b = N does not roll over.
C1_EpochRollover == [][C1_Step]_vars

\* A second call of size 2 on 3 examples has just rolled over.
C1_Witness ==
    /\ num_examples = 3 /\ calls = 2 /\ epochs_completed = 1
    /\ ret.status = "ok" /\ ret.batch_size = 2 /\ ret.start = 0
    /\ index_in_epoch = 2

C2_Step ==
    LET b == ret'.batch_size
        n == num_examples
    IN  (IsCall /\ index_in_epoch + b <= n) =>
           /\ ret'.status = "ok"
           /\ ret'.images = Rows(images, index_in_epoch, index_in_epoch + b)
           /\ ret'.labels = Rows(labels, index_in_epoch, index_in_epoch + b)
           /\ index_in_epoch' = index_in_epoch + b
           /\ epochs_completed' = epochs_completed
           /\ images' = images
           /\ labels' = labels

\* C2: a call next_batch(b) made when cursor + b <= N returns the rows
\* [cursor, cursor + b) of the current arrays, advances the cursor by b and
\* leaves epochs_completed and the order of both arrays as they were.
C2_NonRolloverStep == [][C2_Step]_vars

\* A call that started past position 0 and did not roll over.
C2_Witness ==
    /\ num_examples = 3 /\ ret.op = "next_batch" /\ ret.status = "ok"
    /\ ret.start = 1 /\ ret.end = 3 /\ ret.batch_size = 2
    /\ index_in_epoch = 3 /\ epochs_completed = 0

\* C3 as stated: with a fixed batch size b, 1 <= b <= N, epochs_completed is 1
\* after exactly ceil(N / b) calls of next_batch(b) on a fresh container.
C3_Original ==
    (pc = "ready" /\ plan >= 1 /\ calls = CeilDiv(num_examples, plan))
        => epochs_completed = 1

\* C3 amended: with a fixed batch size b, 1 <= b <= N, epochs_completed is 1
\* after exactly floor(N / b) + 1 calls and 0 before: after ceil(N / b) calls it
\* is 1 when b does not divide N, and still 0 when b divides N (the rollover
\* then comes with call N / b + 1).
C3_EpochAfterCalls ==
    (pc = "ready" /\ plan >= 1) =>
        LET b == plan
            n == num_examples
        IN  /\ (n % b /= 0 /\ calls = CeilDiv(n, b)) => epochs_completed = 1
            /\ (n % b = 0 /\ calls = CeilDiv(n, b)) => epochs_completed = 0
            /\ (calls = (n \div b) + 1) => epochs_completed = 1
            /\ (calls <= n \div b) => epochs_completed = 0

\* N = 10, b = 4: the third call has rolled over.
C3_Witness ==
    /\ num_examples = 10 /\ plan = 4 /\ calls = 3 /\ epochs_completed = 1
    /\ index_in_epoch = 4

\* C4: with a fixed batch size b that does not divide N, the batches of one
\* epoch are the ranges [0,b), [b,2b), ... of that epoch's order, at most (and,
\* once the epoch is over, exactly) floor(N / b) of them, each of b rows; no
\* position from b * floor(N / b) on is returned, and the batch that rolls
\* over is the full range [0, b) of the new order.
C4_DropTail ==
    (pc = "ready" /\ plan >= 1 /\ num_examples % plan /= 0) =>
        LET b == plan
            n == num_examples
            q == n \div b
        IN  /\ Len(served) <= q
            /\ \A k \in 1..Len(served) : served[k] = <<(k - 1) * b, k * b>>
            /\ \A k \in 1..Len(served) :
                  \A pos \in served[k][1]..(served[k][2] - 1) : pos < b * q
            /\ index_in_epoch = b * Len(served)
            /\ (finished /= -1) => (finished = q)
            /\ (epochs_completed > 0) => (Len(served) >= 1)
            /\ (calls > 0) =>
                  /\ ret.status = "ok"
                  /\ ret.images = Rows(images, (Len(served) - 1) * b, Len(served) * b)
                  /\ ret.labels = Rows(labels, (Len(served) - 1) * b, Len(served) * b)

\* N = 10, b = 3: three batches, then the fourth call rolls over.
C4_Witness ==
    /\ num_examples = 10 /\ plan = 3 /\ calls = 4 /\ epochs_completed = 1
    /\ finished = 3 /\ served = << <<0, 3>> >> /\ Len(ret.images) = 3

C5_Step ==
    LET b == ret'.batch_size
        n == num_examples
    IN  IsCall =>
           /\ (b > n) =>
                 /\ ret'.status = "AssertionError"
                 /\ ret'.msg.nums = <<b, n>>
                 /\ ret'.images = <<>>
                 /\ ret'.labels = <<>>
                 /\ UNCHANGED <<index_in_epoch, epochs_completed, images, labels,
                                num_examples>>
           /\ (b = n) => ret'.status = "ok"

\* C5: next_batch(b) with b > N raises an assertion error that reports b and N,
\* returns no batch and changes neither the cursor, epochs_completed nor the
\* arrays; next_batch(N) does not fail.
C5_BatchSizeError == [][C5_Step]_vars

\* A failed call on a container whose cursor had already moved.
C5_Witness ==
    /\ ret.op = "next_batch" /\ ret.status = "AssertionError"
    /\ ret.batch_size = num_examples + 1 /\ index_in_epoch > 0
    /\ epochs_completed = 1

\* C6: images and labels are always the same permutation of the constructor's
\* rows: row i of both comes from the same example, every example is there
\* exactly once, and a returned batch pairs each image with its own label.
C6_PairingPreserved ==
    (pc = "ready") =>
        /\ Len(images) = Len(in_images)
        /\ Len(labels) = Len(in_images)
        /\ {images[i].src : i \in 1..Len(images)} = 1..Len(in_images)
        /\ \A i \in 1..Len(images) :
              /\ images[i].src = labels[i].src
              /\ images[i] = Normalize(in_images[images[i].src])
              /\ labels[i] = in_labels[labels[i].src]
        /\ Len(ret.images) = Len(ret.labels)
        /\ \A k \in 1..Len(ret.images) : ret.images[k].src = ret.labels[k].src

\* Two rollovers have happened and the rows are not in the constructor's order.
C6_Witness ==
    /\ pc = "ready" /\ num_examples = 3 /\ epochs_completed = 2
    /\ images[1].src = 3 /\ Len(ret.images) = 2

C10_Step ==
    LET b == ret'.batch_size
    IN  /\ (pc' = "ready") =>
              /\ 0 <= index_in_epoch' /\ index_in_epoch' <= num_examples'
              /\ num_examples' = Len(in_images)
        /\ (pc = "ready") => (num_examples' = num_examples)
        /\ epochs_completed' >= epochs_completed
        /\ epochs_completed' <= epochs_completed + 1
        /\ (IsCall /\ b \in 1..num_examples) => ret'.status = "ok"
        /\ (IsCall /\ ret'.status = "ok") =>
              /\ Len(ret'.images) = b
              /\ Len(ret'.labels) = b

\* C10: after construction and any calls of next_batch, 0 <= cursor <= N, N
\* does not change, every call with a size in 1..N succeeds, every successful
\* call returns exactly batch_size rows, and epochs_completed never decreases
\* and grows by at most 1 per call.
C10_CursorInvariant == [][C10_Step]_vars

\* Calls of different sizes: 2, then 2 (rollover), then 1, ending at cursor = N.
C10_Witness ==
    /\ num_examples = 3 /\ calls = 3 /\ epochs_completed = 1
    /\ index_in_epoch = 3 /\ ret.batch_size = 1 /\ ret.status = "ok"

(***************************************************************************)
(* Claims about maybe_download.                                            *)
(***************************************************************************)
C7_Step ==
    LET filename == dl_ret'.filename
        filepath == Join(dl_ret'.dir, filename)
    IN  (dl_calls' = dl_calls + 1) =>
           /\ (fs_files[filepath].kind /= "absent") =>
                 /\ dl_ret'.status = "ok"
                 /\ dl_ret'.path = filepath
                 /\ ~dl_ret'.requested
                 /\ requests' = requests
                 /\ fs_files' = fs_files
           /\ (dl_ret'.status = "ok") => (fs_files'[filepath].kind /= "absent")
           /\ (filepath \in returned) =>
                 /\ dl_ret'.status = "ok"
                 /\ requests' = requests
                 /\ fs_files' = fs_files

\* C7: a call of maybe_download whose target file exists returns its path,
\* dispatches no request and leaves the files as they are; a call that returns
\* leaves the file in place, so a second call for the same filename and
\* directory dispatches no request, and none is dispatched at all for a path
\* that was populated beforehand.
C7_FetchIdempotent == [][C7_Step]_vars

\* The second of two calls for one path: the first one downloaded the file,
\* this one returned it without a request.
C7_Witness ==
    /\ dl_calls = 2 /\ dl_ret.status = "ok" /\ ~dl_ret.requested
    /\ requests[dl_ret.filename] = 1
    /\ fs_files[dl_ret.path].kind = "downloaded"

(***************************************************************************)
(* Claims about extract_image.                                             *)
(***************************************************************************)
\* The magic number of the file handed to the decoder.
FileMagic == Read32(dec_file.data, 0)

\* extract_image has run on an archive whose magic number is not 2051.
BadImageMagic == dec_ret.op = "extract_image" /\ FileMagic /= 2051

Srcs(a) == {a[i].src : i \in 1..Len(a)}

\* The number of examples of the training archive that was decoded.
TrainArchiveCount == Read32(fs_files[Join(rds.train_dir, TRAIN_IMAGES)].data, 4)

\* C9: the validation container holds exactly the first VALIDATION_SIZE
\* examples of the decoded training archive (all of them when it has fewer) and
\* the train container all the others: no example is in both, none is lost,
\* images and labels alike; an archive of 5001 gives 5000 and 1.
C9_SplitDisjoint ==
    (rds.pc = "done") =>
        LET n == TrainArchiveCount
            v == rds.data_sets.validation
            t == rds.data_sets.train
        IN  /\ Srcs(v.images) = 1..Min(n, VALIDATION_SIZE)
            /\ Srcs(v.labels) = 1..Min(n, VALIDATION_SIZE)
            /\ Srcs(t.images) = (VALIDATION_SIZE + 1)..n
            /\ Srcs(t.labels) = (VALIDATION_SIZE + 1)..n
            /\ Srcs(v.images) \cap Srcs(t.images) = {}
            /\ Srcs(v.images) \cup Srcs(t.images) = 1..n
            /\ v.num_examples = Len(v.images)
            /\ t.num_examples = Len(t.images)
            /\ Len(v.images) = Cardinality(Srcs(v.images))
            /\ Len(t.images) = Cardinality(Srcs(t.images))
            /\ (n >= VALIDATION_SIZE) =>
                  /\ v.num_examples = VALIDATION_SIZE
                  /\ t.num_examples = n - VALIDATION_SIZE
            /\ (n = 5001) => (v.num_examples = 5000 /\ t.num_examples = 1)

\* read_data_sets has returned for a training archive of 5001 examples.
C9_Witness ==
    /\ rds.pc = "done"
    /\ TrainArchiveCount = 5001
    /\ rds.data_sets.validation.num_examples = 5000
    /\ rds.data_sets.train.num_examples = 1
    /\ rds.data_sets.train.images[1].src = 5001

====
